---------------------------- MODULE Spec2Model ----------------------------
(***************************************************************************)
(* A model of tcldis.py: the decompilation pipeline                        *)
(*   getinsts -> _bblock_create -> _bblock_reduce -> _bblock_flow -> fmt   *)
(* run on one bytecode buffer.  Python lists are sequences (index k of the *)
(* source is index k+1 here), objects are records tagged with their class  *)
(* in the field "kind", and a reference to a BBlock object is the block's  *)
(* loc, which is unique among the blocks of one run.  An uncaught Python   *)
(* exception ends the run in stage "error", with the exception's class in  *)
(* err.                                                                    *)
(***************************************************************************)
EXTENDS Integers, Sequences, FiniteSets, TLC

VARIABLES
    code,           \* decompile: the bytecode getbc returned (never written)
    stage,          \* the position of the run in decompile
    err,            \* the class of the uncaught exception, "" while there is none
    tb,             \* the function the exception was raised in, "" while there is none
    bytecode,       \* getinsts: its copy of the buffer, consumed from the front
    insts,          \* getinsts: insts; after it, decompile's and _bblock_create's insts
    pc,             \* getinsts: pc
    i,              \* _bblock_create: the index of the first loop (0-based)
    newstart,       \* _bblock_create: newstart
    starts,         \* _bblock_create: starts
    ends,           \* _bblock_create: ends
    instbeforeidx,  \* _bblock_create: instbeforeidx
    bblocks,        \* decompile: bblocks, the top-level block sequence
    cur,            \* decompile: the position of the comprehension that reduces the blocks
    detached,       \* the blocks _bblock_flow removed from bblocks (still referenced)
    outstr          \* decompile: outstr

vars == <<code, stage, err, tb, bytecode, insts, pc, i, newstart, starts, ends,
          instbeforeidx, bblocks, cur, detached, outstr>>

(***************************************************************************)
(* Bounds of the model.                                                    *)
(***************************************************************************)
\* The longest buffer of arbitrary bytes.
MaxBytes == 3

\* The most instructions of a buffer of stack instructions.
MaxInsts == 4

\* The most pieces of a buffer of conditionals.
MaxSnippets == 4

\* The most pieces of a buffer of the runs checked for termination.
MaxFairSnippets == 3

(***************************************************************************)
(* Python's list operations.                                               *)
(***************************************************************************)
Max(a, b) == IF a >= b THEN a ELSE b

Min(a, b) == IF a <= b THEN a ELSE b

\* A slice bound as Python normalises it: negative bounds count from the end,
\* and both are clamped to the list.
PyBound(k, n) == IF k < 0 THEN Max(k + n, 0) ELSE Min(k, n)

\* s[lo:hi] with 0-based lo and hi.
PySlice(s, lo, hi) ==
    LET a == PyBound(lo, Len(s))
        b == PyBound(hi, Len(s))
    IN  IF a >= b THEN << >> ELSE SubSeq(s, a + 1, b)

\* s[lo:hi] = new
PySliceAssign(s, lo, hi, new) ==
    LET a == PyBound(lo, Len(s))
        b == Max(PyBound(hi, Len(s)), a)
    IN  SubSeq(s, 1, a) \o new \o SubSeq(s, b + 1, Len(s))

None == [kind |-> "None"]

(***************************************************************************)
(* The tables.                                                             *)
(***************************************************************************)
JUMP_INSTRUCTIONS ==
    {"jump1", "jump4", "jumpTrue1", "jumpTrue4", "jumpFalse1", "jumpFalse4"}

\* OPERANDS[opnum + 1]: the operand's name, and the size and the signedness of
\* its struct descriptor; NONE has no decoder.
OPERANDS == <<
    [name |-> "NONE",  getop |-> FALSE, size |-> 0, signed |-> FALSE],
    [name |-> "INT1",  getop |-> TRUE,  size |-> 1, signed |-> TRUE],
    [name |-> "INT4",  getop |-> TRUE,  size |-> 4, signed |-> TRUE],
    [name |-> "UINT1", getop |-> TRUE,  size |-> 1, signed |-> FALSE],
    [name |-> "UINT4", getop |-> TRUE,  size |-> 4, signed |-> FALSE],
    [name |-> "IDX4",  getop |-> TRUE,  size |-> 4, signed |-> TRUE],
    [name |-> "LVT1",  getop |-> TRUE,  size |-> 1, signed |-> FALSE],
    [name |-> "LVT4",  getop |-> TRUE,  size |-> 4, signed |-> FALSE],
    [name |-> "AUX4",  getop |-> TRUE,  size |-> 4, signed |-> FALSE] >>

\* INSTRUCTIONS[opcode + 1]: the instruction table of the C extension, cut to
\* the instructions the pipeline names and one it has no rule for (done).  As
\* in Tcl's table, num_bytes is one more than the sizes of the operands.
INSTRUCTIONS == <<
    [name |-> "done",         num_bytes |-> 1, operands |-> << >>],
    [name |-> "push1",        num_bytes |-> 2, operands |-> <<3>>],
    [name |-> "push4",        num_bytes |-> 5, operands |-> <<4>>],
    [name |-> "pop",          num_bytes |-> 1, operands |-> << >>],
    [name |-> "invokeStk1",   num_bytes |-> 2, operands |-> <<3>>],
    [name |-> "invokeStk4",   num_bytes |-> 5, operands |-> <<4>>],
    [name |-> "loadArrayStk", num_bytes |-> 1, operands |-> << >>],
    [name |-> "loadStk",      num_bytes |-> 1, operands |-> << >>],
    [name |-> "storeStk",     num_bytes |-> 1, operands |-> << >>],
    [name |-> "jump1",        num_bytes |-> 2, operands |-> <<1>>],
    [name |-> "jump4",        num_bytes |-> 5, operands |-> <<2>>],
    [name |-> "jumpTrue1",    num_bytes |-> 2, operands |-> <<1>>],
    [name |-> "jumpTrue4",    num_bytes |-> 5, operands |-> <<2>>],
    [name |-> "jumpFalse1",   num_bytes |-> 2, operands |-> <<1>>],
    [name |-> "jumpFalse4",   num_bytes |-> 5, operands |-> <<2>>],
    [name |-> "nop",          num_bytes |-> 1, operands |-> << >>] >>

\* The literal pool getbc returned with the bytecode.
literals == <<"x", "%d">>

(***************************************************************************)
(* Inst.__init__ and the operand decoders.                                 *)
(***************************************************************************)
RECURSIVE BigEndian(_)
BigEndian(bs) ==
    IF bs = << >> THEN 0
    ELSE 256 * BigEndian(SubSeq(bs, 1, Len(bs) - 1)) + bs[Len(bs)]

\* struct.unpack of a big-endian descriptor on exactly size bytes: a signed
\* value whose first bit is set is negative (two's complement).
unpack(optype, opbytes) ==
    IF optype.signed /\ opbytes[1] >= 128
    THEN BigEndian([opbytes EXCEPT ![1] = @ - 256])
    ELSE BigEndian(opbytes)

\* A decoder that takes the bytes there are when the buffer ends early.
getop_lambda_short(optype, bc) ==
    IF Len(bc) < optype.size
    THEN [ok |-> TRUE, val |-> BigEndian(bc), rest |-> << >>]
    ELSE [ok |-> TRUE, val |-> unpack(optype, SubSeq(bc, 1, optype.size)),
          rest |-> SubSeq(bc, optype.size + 1, Len(bc))]

\* getop_lambda: pops numbytes bytes off the front of bc; popping an empty
\* bytearray raises.
getop_lambda(optype, bc) ==
    IF Len(bc) < optype.size
    THEN [ok |-> FALSE, err |-> "IndexError"]
    ELSE [ok |-> TRUE, val |-> unpack(optype, SubSeq(bc, 1, optype.size)),
          rest |-> SubSeq(bc, optype.size + 1, Len(bc))]

\* The loop of Inst.__init__ over inst_type['operands'].
RECURSIVE DecodeOps(_, _, _)
DecodeOps(opnums, bc, ops) ==
    IF opnums = << >> THEN [ok |-> TRUE, ops |-> ops]
    ELSE LET optype == OPERANDS[Head(opnums) + 1]
         IN  IF ~optype.getop THEN [ok |-> FALSE, err |-> "TypeError"]
             ELSE LET r == getop_lambda(optype, bc)
                  IN  IF ~r.ok THEN r
                      ELSE DecodeOps(Tail(opnums), r.rest,
                                     Append(ops, <<optype.name, r.val>>))

\* Inst(bytecode, loc): the opcode byte is popped, then the operands; a jump
\* gets its targetloc.
Inst(bc, loc) ==
    IF bc = << >> THEN [ok |-> FALSE, err |-> "IndexError"]
    ELSE IF Head(bc) + 1 > Len(INSTRUCTIONS) THEN [ok |-> FALSE, err |-> "IndexError"]
    ELSE LET inst_type == INSTRUCTIONS[Head(bc) + 1]
             r == DecodeOps(inst_type.operands, Tail(bc), << >>)
         IN  IF ~r.ok THEN r
             ELSE IF inst_type.name \in JUMP_INSTRUCTIONS
             THEN [ok |-> TRUE,
                   inst |-> [kind |-> "Inst", name |-> inst_type.name, ops |-> r.ops,
                             loc |-> loc, targetloc |-> [loc |-> loc + r.ops[1][2]]]]
             ELSE [ok |-> TRUE,
                   inst |-> [kind |-> "Inst", name |-> inst_type.name, ops |-> r.ops,
                             loc |-> loc]]

(***************************************************************************)
(* The end of a run by an uncaught exception.                              *)
(***************************************************************************)
Raise(fn, e) ==
    /\ stage' = "error"
    /\ err' = e
    /\ tb' = fn

(***************************************************************************)
(* getinsts                                                                *)
(***************************************************************************)
\* A getinsts that counts instructions where it should count bytes.
getinsts_pc_count(loc, num_bytes) == loc + 1

\* pc += num_bytes
getinsts_pc(loc, num_bytes) == loc + num_bytes

\* One iteration of the while loop: the table is read at the first byte, an
\* Inst is built from the instruction's slice, pc and the buffer advance.
getinsts_loop ==
    /\ stage = "getinsts"
    /\ Len(bytecode) > 0
    /\ IF bytecode[1] + 1 > Len(INSTRUCTIONS)
       THEN /\ Raise("getinsts", "IndexError")
            /\ UNCHANGED <<bytecode, insts, pc>>
       ELSE LET num_bytes == INSTRUCTIONS[bytecode[1] + 1].num_bytes
                r == Inst(PySlice(bytecode, 0, num_bytes), pc)
            IN  IF ~r.ok
                THEN /\ Raise("getinsts", r.err)
                     /\ UNCHANGED <<bytecode, insts, pc>>
                ELSE /\ insts' = Append(insts, r.inst)
                     /\ pc' = getinsts_pc(pc, num_bytes)
                     /\ bytecode' = PySlice(bytecode, num_bytes, Len(bytecode))
                     /\ UNCHANGED <<stage, err, tb>>
    /\ UNCHANGED <<code, i, newstart, starts, ends, instbeforeidx, bblocks, cur,
                   detached, outstr>>

\* The loop's exit: getinsts returns insts and decompile calls _bblock_create.
getinsts_return ==
    /\ stage = "getinsts"
    /\ Len(bytecode) = 0
    /\ stage' = "create"
    /\ i' = 0
    /\ newstart' = TRUE
    /\ starts' = {}
    /\ ends' = {}
    /\ UNCHANGED <<code, err, tb, bytecode, insts, pc, instbeforeidx, bblocks, cur,
                   detached, outstr>>

(***************************************************************************)
(* _bblock_create                                                          *)
(***************************************************************************)
\* One iteration of the first loop, up to the search for the instruction
\* before a jump's target.
_bblock_create_loop ==
    /\ stage = "create"
    /\ i < Len(insts)
    /\ LET inst == insts[i + 1]
           starts1 == IF newstart THEN starts \cup {inst.loc} ELSE starts
       IN  IF inst.name \in JUMP_INSTRUCTIONS
           THEN /\ ends' = ends \cup {inst.loc}
                /\ starts' = starts1 \cup {inst.targetloc.loc}
                /\ newstart' = TRUE
                /\ IF inst.targetloc.loc # 0
                   THEN /\ stage' = "search"
                        /\ instbeforeidx' = 0
                        /\ i' = i
                   ELSE /\ i' = i + 1
                        /\ UNCHANGED <<stage, instbeforeidx>>
           ELSE /\ starts' = starts1
                /\ newstart' = FALSE
                /\ i' = i + 1
                /\ UNCHANGED <<ends, stage, instbeforeidx>>
    /\ UNCHANGED <<code, err, tb, bytecode, insts, pc, bblocks, cur, detached, outstr>>

\* A search loop that does not advance its index.
_bblock_create_search_stall ==
    /\ stage = "search"
    /\ instbeforeidx + 1 < Len(insts)
    /\ insts[instbeforeidx + 2].loc # insts[i + 1].targetloc.loc
    /\ UNCHANGED vars

\* The search loop: the next instruction is not the target, the index advances.
_bblock_create_search ==
    /\ stage = "search"
    /\ instbeforeidx + 1 < Len(insts)
    /\ insts[instbeforeidx + 2].loc # insts[i + 1].targetloc.loc
    /\ instbeforeidx' = instbeforeidx + 1
    /\ UNCHANGED <<code, stage, err, tb, bytecode, insts, pc, i, newstart, starts, ends,
                   bblocks, cur, detached, outstr>>

\* A break of the search loop that forgets to end the block before the target.
_bblock_create_found_noend ==
    /\ stage = "search"
    /\ instbeforeidx + 1 < Len(insts)
    /\ insts[instbeforeidx + 2].loc = insts[i + 1].targetloc.loc
    /\ stage' = "create"
    /\ i' = i + 1
    /\ UNCHANGED <<code, err, tb, bytecode, insts, pc, newstart, starts, ends,
                   instbeforeidx, bblocks, cur, detached, outstr>>

\* The search loop's break: the instruction before the target ends a block.
_bblock_create_found ==
    /\ stage = "search"
    /\ instbeforeidx + 1 < Len(insts)
    /\ insts[instbeforeidx + 2].loc = insts[i + 1].targetloc.loc
    /\ ends' = ends \cup {insts[instbeforeidx + 1].loc}
    /\ stage' = "create"
    /\ i' = i + 1
    /\ UNCHANGED <<code, err, tb, bytecode, insts, pc, newstart, starts, instbeforeidx,
                   bblocks, cur, detached, outstr>>

\* The search loop runs off the list: insts[instbeforeidx+1] raises.
_bblock_create_notfound ==
    /\ stage = "search"
    /\ instbeforeidx + 1 >= Len(insts)
    /\ Raise("_bblock_create", "IndexError")
    /\ UNCHANGED <<code, bytecode, insts, pc, i, newstart, starts, ends,
                   instbeforeidx, bblocks, cur, detached, outstr>>

\* sorted(list(S)): the element at k has k - 1 elements of S below it.
sorted(S) ==
    [k \in 1..Cardinality(S) |-> CHOOSE x \in S : Cardinality({y \in S : y < x}) = k - 1]

\* The inner while of the block loop: instructions are popped off the front
\* while they lie before end.
RECURSIVE TakeBefore(_, _, _)
TakeBefore(bblocks_insts, end, bbinsts) ==
    IF bblocks_insts = << >> THEN [ok |-> FALSE, err |-> "IndexError"]
    ELSE IF Head(bblocks_insts).loc < end
    THEN TakeBefore(Tail(bblocks_insts), end, Append(bbinsts, Head(bblocks_insts)))
    ELSE [ok |-> TRUE, bbinsts |-> bbinsts, rest |-> bblocks_insts]

\* One pass of the block loop, for the pair (start, end), with its assertions:
\* the block made and the instructions left.
CreateBlock(start, end, bblocks_insts) ==
    IF bblocks_insts = << >> THEN [ok |-> FALSE, err |-> "IndexError"]
    ELSE IF Head(bblocks_insts).loc # start THEN [ok |-> FALSE, err |-> "AssertionError"]
    ELSE LET t == TakeBefore(bblocks_insts, end, << >>)
         IN  IF ~t.ok THEN t
             ELSE IF Head(t.rest).loc # end THEN [ok |-> FALSE, err |-> "AssertionError"]
             ELSE LET bbinsts == Append(t.bbinsts, Head(t.rest))
                  IN  [ok |-> TRUE,
                       bblock |-> [kind |-> "BBlock", insts |-> bbinsts,
                                   loc |-> bbinsts[1].loc],
                       rest |-> Tail(t.rest)]

\* The block loop over zip(sorted(starts), sorted(ends)).  (The pass is bound
\* as the one element of a set, so that it is evaluated once.)
RECURSIVE CreateBlocks(_, _, _, _)
CreateBlocks(ss, es, bblocks_insts, acc) ==
    IF ss = << >> \/ es = << >> THEN [ok |-> TRUE, bblocks |-> acc]
    ELSE CHOOSE out \in
            { IF ~r.ok THEN r
              ELSE CreateBlocks(Tail(ss), Tail(es), r.rest, Append(acc, r.bblock)) :
                  r \in {CreateBlock(Head(ss), Head(es), bblocks_insts)} } : TRUE

\* The end of the first loop, and the creation of the blocks.
_bblock_create_blocks ==
    /\ stage = "create"
    /\ i = Len(insts)
    /\ IF insts = << >>
       THEN /\ Raise("_bblock_create", "IndexError")
            /\ UNCHANGED <<ends, bblocks>>
       ELSE /\ ends' = ends \cup {insts[Len(insts)].loc}
            /\ IF Cardinality(starts) # Cardinality(ends')
               THEN /\ Raise("_bblock_create", "AssertionError")
                    /\ UNCHANGED bblocks
               ELSE LET r == CreateBlocks(sorted(starts), sorted(ends'), insts, << >>)
                    IN  IF ~r.ok
                        THEN /\ Raise("_bblock_create", r.err)
                             /\ UNCHANGED bblocks
                        ELSE /\ bblocks' = r.bblocks
                             /\ stage' = "fixup"
                             /\ UNCHANGED <<err, tb>>
    /\ UNCHANGED <<code, bytecode, insts, pc, i, newstart, starts, instbeforeidx,
                   cur, detached, outstr>>

\* The jump fixup of one instruction: the first block at its target replaces
\* the offset (the block is referred to by its loc).
FixupInst(inst, bbs) ==
    IF inst.name \in JUMP_INSTRUCTIONS
    THEN [inst EXCEPT !.targetloc = [bblock |-> inst.targetloc.loc]]
    ELSE inst

\* Whether the fixup's inner loop finds a block for every jump (else: assert False).
FixupOk(is, bbs) ==
    \A k \in 1..Len(is) :
        is[k].name \in JUMP_INSTRUCTIONS =>
            \E b \in 1..Len(bbs) : bbs[b].loc = is[k].targetloc.loc

\* The jump fixup; the blocks hold the very Inst objects of insts, so they see
\* it too.  _bblock_create returns and decompile starts to reduce the blocks.
_bblock_create_fixup ==
    /\ stage = "fixup"
    /\ IF ~FixupOk(insts, bblocks)
       THEN /\ Raise("_bblock_create", "AssertionError")
            /\ UNCHANGED <<insts, bblocks, cur>>
       ELSE /\ insts' = [k \in 1..Len(insts) |-> FixupInst(insts[k], bblocks)]
            /\ bblocks' = [b \in 1..Len(bblocks) |->
                             [bblocks[b] EXCEPT !.insts =
                                 [k \in 1..Len(bblocks[b].insts) |->
                                     FixupInst(bblocks[b].insts[k], bblocks)]]]
            /\ stage' = "reduce"
            /\ cur' = 0
            /\ UNCHANGED <<err, tb>>
    /\ UNCHANGED <<code, bytecode, pc, i, newstart, starts, ends, instbeforeidx,
                   detached, outstr>>

(***************************************************************************)
(* The node classes.                                                       *)
(***************************************************************************)
BCLiteral(inst, value) == [kind |-> "BCLiteral", inst |-> inst, value |-> value]

BCVarRef(inst, value) == [kind |-> "BCVarRef", inst |-> inst, value |-> value]

BCArrayRef(inst, value) == [kind |-> "BCArrayRef", inst |-> inst, value |-> value]

BCProcCall(inst, value) == [kind |-> "BCProcCall", inst |-> inst, value |-> value]

BCIgnoredProcCall(inst, value) ==
    [kind |-> "BCIgnoredProcCall", inst |-> inst, value |-> value]

\* on is "None", "True" or "False"; targetloc is the instruction's, a block by now.
BCJump(on, inst, value) ==
    [kind |-> "BCJump", inst |-> inst, value |-> value, on |-> on,
     targetloc |-> inst.targetloc]

BBFlowIf(condition, bbs) ==
    [kind |-> "BBFlowIf", bblocks |-> bbs, condition |-> condition]

\* isinstance(x, BCValue)
BCValue == {"BCLiteral", "BCVarRef", "BCArrayRef", "BCProcCall"}

\* isinstance(arg, checktype)
isinstance(arg, checktype) ==
    IF checktype = "BCValue" THEN arg.kind \in BCValue ELSE arg.kind = checktype

(***************************************************************************)
(* _inst_reductions and _bblock_reduce                                     *)
(***************************************************************************)
\* The keys of INST_REDUCTIONS.
INST_REDUCTIONS ==
    {"invokeStk1", "invokeStk4", "jump1", "jumpFalse1", "jumpTrue1", "loadArrayStk",
     "loadStk", "nop", "pop", "storeStk"}

\* IRED['nargs'](inst)
nargs(inst) ==
    CASE inst.name \in {"invokeStk1", "invokeStk4"} -> inst.ops[1][2]
      [] inst.name \in {"jump1", "nop"} -> 0
      [] inst.name \in {"jumpFalse1", "jumpTrue1", "loadStk", "pop"} -> 1
      [] inst.name \in {"loadArrayStk", "storeStk"} -> 2

\* IRED.get('checktype', BCValue)
checktype(inst) == IF inst.name = "pop" THEN "BCProcCall" ELSE "BCValue"

\* IRED['redfn'](inst, arglist), made a list when it is none; the classes'
\* assertions on the length and the class of value raise.
redfn(inst, arglist) ==
    CASE inst.name \in {"invokeStk1", "invokeStk4"} ->
            [ok |-> TRUE, newinsts |-> <<BCProcCall(inst, arglist)>>]
      [] inst.name = "jump1" ->
            [ok |-> TRUE, newinsts |-> <<BCJump("None", inst, arglist)>>]
      [] inst.name = "jumpFalse1" ->
            [ok |-> TRUE, newinsts |-> <<BCJump("False", inst, arglist)>>]
      [] inst.name = "jumpTrue1" ->
            [ok |-> TRUE, newinsts |-> <<BCJump("True", inst, arglist)>>]
      [] inst.name = "loadArrayStk" ->
            IF Len(arglist) = 2
            THEN [ok |-> TRUE, newinsts |-> <<BCArrayRef(inst, arglist)>>]
            ELSE [ok |-> FALSE, err |-> "AssertionError"]
      [] inst.name = "loadStk" ->
            IF Len(arglist) = 1
            THEN [ok |-> TRUE, newinsts |-> <<BCVarRef(inst, arglist)>>]
            ELSE [ok |-> FALSE, err |-> "AssertionError"]
      [] inst.name = "nop" ->
            [ok |-> TRUE, newinsts |-> << >>]
      [] inst.name = "pop" ->
            IF Len(arglist) = 1 /\ arglist[1].kind = "BCProcCall"
            THEN [ok |-> TRUE, newinsts |-> <<BCIgnoredProcCall(inst, arglist)>>]
            ELSE [ok |-> FALSE, err |-> "AssertionError"]
      [] inst.name = "storeStk" ->
            IF Len(arglist) < 2 THEN [ok |-> FALSE, err |-> "IndexError"]
            ELSE [ok |-> TRUE,
                  newinsts |-> <<BCProcCall(inst, <<BCLiteral(None, "set"),
                                                    arglist[1], arglist[2]>>)>>]

\* bblock.insts[i-nargs:i] for the item at the 0-based index k
arglist(items, k) == PySlice(items, k - nargs(items[k + 1]), k)

\* A test that takes whatever the slice holds for the arguments.
Reducible_anylen(items, k) ==
    LET inst == items[k + 1]
    IN  /\ inst.kind = "Inst"
        /\ \/ inst.name \in {"push1", "push4"}
           \/ /\ inst.name \in INST_REDUCTIONS
              /\ \A a \in 1..Len(arglist(items, k)) :
                    isinstance(arglist(items, k)[a], checktype(inst))

\* Whether the for loop, at the 0-based index k, rewrites the block: the item
\* is a raw instruction, and either a push, or one with a rule whose
\* arguments are all there and of the right class.
Reducible(items, k) ==
    LET inst == items[k + 1]
    IN  /\ inst.kind = "Inst"
        /\ \/ inst.name \in {"push1", "push4"}
           \/ /\ inst.name \in INST_REDUCTIONS
              /\ Len(arglist(items, k)) = nargs(inst)
              /\ \A a \in 1..Len(arglist(items, k)) :
                    isinstance(arglist(items, k)[a], checktype(inst))

\* The rewrite the for loop makes at the 0-based index k.
Reduce(items, k) ==
    LET inst == items[k + 1]
    IN  IF inst.name \in {"push1", "push4"}
        THEN IF inst.ops[1][2] >= Len(literals)
             THEN [ok |-> FALSE, err |-> "IndexError"]
             ELSE [ok |-> TRUE,
                   insts |-> [items EXCEPT
                                ![k + 1] = BCLiteral(inst, literals[inst.ops[1][2] + 1])]]
        ELSE LET r == redfn(inst, arglist(items, k))
             IN  IF ~r.ok THEN r
                 ELSE [ok |-> TRUE,
                       insts |-> PySliceAssign(items, k - nargs(inst), k + 1, r.newinsts)]

\* The indexes at which the for loop would rewrite the block.
ReducibleAt(items) == {k \in 0..(Len(items) - 1) : Reducible(items, k)}

\* The index at which the for loop breaks: the first such.
FirstReducible(items) ==
    CHOOSE k \in ReducibleAt(items) : \A m \in ReducibleAt(items) : k <= m

\* One iteration of the while loop that changes the block.
_bblock_reduce ==
    /\ stage = "reduce"
    /\ cur < Len(bblocks)
    /\ ReducibleAt(bblocks[cur + 1].insts) # {}
    /\ LET items == bblocks[cur + 1].insts
           r == Reduce(items, FirstReducible(items))
       IN  IF ~r.ok
           THEN /\ Raise("_bblock_reduce", r.err)
                /\ UNCHANGED bblocks
           ELSE /\ bblocks' = [bblocks EXCEPT ![cur + 1].insts = r.insts]
                /\ UNCHANGED <<stage, err, tb>>
    /\ UNCHANGED <<code, bytecode, insts, pc, i, newstart, starts, ends,
                   instbeforeidx, cur, detached, outstr>>

\* The iteration that changes nothing: _bblock_reduce returns, and the
\* comprehension of decompile goes on to the next block, or to _bblock_flow.
_bblock_reduce_return ==
    /\ stage = "reduce"
    /\ cur < Len(bblocks)
    /\ ReducibleAt(bblocks[cur + 1].insts) = {}
    /\ cur' = cur + 1
    /\ stage' = IF cur + 1 = Len(bblocks) THEN "flow" ELSE "reduce"
    /\ UNCHANGED <<code, err, tb, bytecode, insts, pc, i, newstart, starts, ends,
                   instbeforeidx, bblocks, detached, outstr>>

(***************************************************************************)
(* _get_jump and _bblock_flow                                              *)
(***************************************************************************)
\* _get_jump(bblock), for a block with items: the last item when it is a BCJump.
_get_jump(bblock) ==
    IF bblock.insts[Len(bblock.insts)].kind = "BCJump"
    THEN bblock.insts[Len(bblock.insts)]
    ELSE None

\* bblock.insts[-1] raises on a block without items.
GetJumpRaises(bblock) == bblock.insts = << >>

\* The list targets: per block the block its last jump refers to, or None.
targets(bbs) ==
    [b \in 1..Len(bbs) |->
        IF _get_jump(bbs[b]) = None THEN None ELSE _get_jump(bbs[b]).targetloc]

\* targets.count(bblock)
TargetCount(bbs, bblock) ==
    Cardinality({b \in 1..Len(bbs) : targets(bbs)[b] = [bblock |-> bblock.loc]})

\* A loop that does not count the jumps to the third block of the run.
FlowAt_nocount(bbs, k) ==
    IF GetJumpRaises(bbs[k + 1]) THEN "raise"
    ELSE LET jump == _get_jump(bbs[k + 1])
         IN  IF jump = None THEN "continue"
             ELSE IF jump.on = "None" THEN "continue"
             ELSE IF Len(bbs) - k < 3 THEN "continue"
             ELSE IF GetJumpRaises(bbs[k + 2]) THEN "raise"
             ELSE IF _get_jump(bbs[k + 2]) # None THEN "continue"
             ELSE IF jump.targetloc # [bblock |-> bbs[k + 3].loc] THEN "continue"
             ELSE IF \E b \in 1..Len(bbs) : GetJumpRaises(bbs[b]) THEN "raise"
             ELSE IF TargetCount(bbs, bbs[k + 2]) > 0 THEN "continue"
             ELSE "merge"

\* What the for loop does at the 0-based index k: "raise" (an IndexError of
\* _get_jump), "continue", or "merge".
FlowAt(bbs, k) ==
    IF GetJumpRaises(bbs[k + 1]) THEN "raise"
    ELSE LET jump == _get_jump(bbs[k + 1])
         IN  IF jump = None THEN "continue"
             ELSE IF jump.on = "None" THEN "continue"
             ELSE IF Len(bbs) - k < 3 THEN "continue"
             ELSE IF GetJumpRaises(bbs[k + 2]) THEN "raise"
             ELSE IF _get_jump(bbs[k + 2]) # None THEN "continue"
             ELSE IF jump.targetloc # [bblock |-> bbs[k + 3].loc] THEN "continue"
             ELSE IF \E b \in 1..Len(bbs) : GetJumpRaises(bbs[b]) THEN "raise"
             ELSE IF TargetCount(bbs, bbs[k + 2]) > 0 THEN "continue"
             ELSE IF TargetCount(bbs, bbs[k + 3]) > 1 THEN "continue"
             ELSE "merge"

\* The for loop from the 0-based index k on: where it ends and how ("return"
\* when it runs to the end with no change).
RECURSIVE FlowScan(_, _)
FlowScan(bbs, k) ==
    IF k >= Len(bbs) THEN [how |-> "return", i |-> k]
    ELSE IF FlowAt(bbs, k) = "continue" THEN FlowScan(bbs, k + 1)
    ELSE [how |-> FlowAt(bbs, k), i |-> k]

\* A merge that leaves the third block's items out of the first.
Merge_noextend(bbs, k) ==
    LET A == bbs[k + 1]
        initialcondition == A.insts[Len(A.insts)]
        popped == SubSeq(A.insts, 1, Len(A.insts) - 1)
        merged == Append(popped, BBFlowIf(initialcondition, PySlice(bbs, k + 1, k + 2)))
    IN  PySliceAssign([bbs EXCEPT ![k + 1].insts = merged], k + 1, k + 3, << >>)

\* The merge of the run at the 0-based index k.
Merge(bbs, k) ==
    LET A == bbs[k + 1]
        initialcondition == A.insts[Len(A.insts)]
        popped == SubSeq(A.insts, 1, Len(A.insts) - 1)
        merged == Append(popped, BBFlowIf(initialcondition, PySlice(bbs, k + 1, k + 2)))
                      \o bbs[k + 3].insts
    IN  PySliceAssign([bbs EXCEPT ![k + 1].insts = merged], k + 1, k + 3, << >>)

\* One iteration of the while loop that merges a run.
_bblock_flow ==
    /\ stage = "flow"
    /\ FlowScan(bblocks, 0).how = "merge"
    /\ bblocks' = Merge(bblocks, FlowScan(bblocks, 0).i)
    /\ detached' = detached \o PySlice(bblocks, FlowScan(bblocks, 0).i + 1,
                                       FlowScan(bblocks, 0).i + 3)
    /\ UNCHANGED <<code, stage, err, tb, bytecode, insts, pc, i, newstart, starts, ends,
                   instbeforeidx, cur, outstr>>

\* _get_jump raises in the for loop.
_bblock_flow_raise ==
    /\ stage = "flow"
    /\ FlowScan(bblocks, 0).how = "raise"
    /\ Raise("_bblock_flow", "IndexError")
    /\ UNCHANGED <<code, bytecode, insts, pc, i, newstart, starts, ends,
                   instbeforeidx, bblocks, cur, detached, outstr>>

(***************************************************************************)
(* The formatters: __repr__ and fmt of the classes.                        *)
(***************************************************************************)
\* repr of a BBlock: its loc and the number of its items, as they are now.
BBlock_repr(ref) ==
    LET all == bblocks \o detached
        b == CHOOSE b \in 1..Len(all) : all[b].loc = ref.bblock
    IN  "BBlock(at " \o ToString(ref.bblock) \o ", " \o ToString(Len(all[b].insts))
            \o " insts)"

\* repr of the list inst.ops, a list of (name, value) tuples.
RECURSIVE ops_repr(_)
ops_repr(ops) ==
    IF ops = << >> THEN ""
    ELSE "('" \o ops[1][1] \o "', " \o ToString(ops[1][2]) \o ")"
            \o (IF Len(ops) = 1 THEN "" ELSE ", " \o ops_repr(Tail(ops)))

\* Inst.__repr__
Inst_repr(inst) ==
    "<" \o ToString(inst.loc) \o ": " \o inst.name \o " [" \o ops_repr(inst.ops) \o "]>"

RECURSIVE repr(_), list_repr(_)
\* __repr__ of the value classes and of BCJump
repr(node) ==
    CASE node.kind = "BCLiteral" -> "BCLiteral('" \o node.value \o "')"
      [] node.kind \in {"BCVarRef", "BCArrayRef", "BCProcCall", "BCIgnoredProcCall"} ->
            node.kind \o "([" \o list_repr(node.value) \o "])"
      [] node.kind = "BCJump" ->
            "BCJump(" \o node.on \o "==[" \o list_repr(node.value) \o "])->"
                \o BBlock_repr(node.inst.targetloc)
      [] node.kind = "Inst" -> Inst_repr(node)

\* the items of repr(list)
list_repr(nodes) ==
    IF nodes = << >> THEN ""
    ELSE repr(nodes[1]) \o (IF Len(nodes) = 1 THEN "" ELSE ", " \o list_repr(Tail(nodes)))

\* str % (conditionstr,) once the %s of the template has taken the one
\* argument: the exception the rest of the format string raises from its
\* 1-based position p on, "" when it raises none.  "%%" is a literal "%", any
\* other conversion finds no argument left (TypeError), and a "%" that ends
\* the string is an incomplete format (ValueError).
RECURSIVE format_err(_, _)
format_err(s, p) ==
    IF p > Len(s) THEN ""
    ELSE IF SubSeq(s, p, p) # "%" THEN format_err(s, p + 1)
    ELSE IF p = Len(s) THEN "ValueError"
    ELSE IF SubSeq(s, p + 1, p + 1) = "%" THEN format_err(s, p + 2)
    ELSE "TypeError"

\* The text the rest of the format string gives when it raises nothing.
RECURSIVE format_text(_, _)
format_text(s, p) ==
    IF p > Len(s) THEN ""
    ELSE IF SubSeq(s, p, p) # "%" THEN SubSeq(s, p, p) \o format_text(s, p + 1)
    ELSE IF p < Len(s) /\ SubSeq(s, p + 1, p + 1) = "%" THEN "%" \o format_text(s, p + 2)
    ELSE ""

RECURSIVE fmt(_), args_fmt(_), BBlock_fmt(_), insts_fmt(_)
\* BBFlowIf.fmt: the condition is the jump's value, with "!" before it when
\* the jump is taken on true; the body's text is part of the format string.
BBFlowIf_fmt(node) ==
    LET conditionstr == fmt(node.condition.value[1])
    IN  "if {" \o (IF node.condition.on = "True" THEN "!" \o conditionstr
                   ELSE conditionstr)
            \o format_text("} {\n" \o BBlock_fmt(node.bblocks[1]) \o "}", 1)

\* fmt of the node classes; a raw instruction is printed by str.
fmt(node) ==
    CASE node.kind = "BCLiteral" -> node.value
      [] node.kind = "BCVarRef" -> "$" \o fmt(node.value[1])
      [] node.kind = "BCArrayRef" ->
            "$" \o fmt(node.value[1]) \o "(" \o fmt(node.value[2]) \o ")"
      [] node.kind = "BCProcCall" -> "[" \o args_fmt(node.value) \o "]"
      [] node.kind = "BCIgnoredProcCall" ->
            SubSeq(fmt(node.value[1]), 2, Len(fmt(node.value[1])) - 1)
      [] node.kind = "BCJump" -> repr(node)
      [] node.kind = "BBFlowIf" -> BBFlowIf_fmt(node)
      [] node.kind = "Inst" -> Inst_repr(node)

\* ' '.join of the arguments' fmt
args_fmt(nodes) ==
    IF nodes = << >> THEN ""
    ELSE fmt(nodes[1]) \o (IF Len(nodes) = 1 THEN "" ELSE " " \o args_fmt(Tail(nodes)))

\* '\n'.join of the items' fmt
insts_fmt(nodes) ==
    IF nodes = << >> THEN ""
    ELSE fmt(nodes[1]) \o (IF Len(nodes) = 1 THEN "" ELSE "\n" \o insts_fmt(Tail(nodes)))

\* BBlock.fmt
BBlock_fmt(bblock) == insts_fmt(bblock.insts) \o "\n"

\* The exception BBlock.fmt ends with, "" when it returns: the first that the
\* fmt of one of its BBFlowIf items raises, in the body's fmt or in the %.
RECURSIVE insts_fmt_err(_)
insts_fmt_err(nodes) ==
    IF nodes = << >> THEN ""
    ELSE LET node == nodes[1]
             inner == IF node.kind = "BBFlowIf"
                      THEN insts_fmt_err(node.bblocks[1].insts)
                      ELSE ""
             own == IF node.kind = "BBFlowIf" /\ inner = ""
                    THEN format_err("} {\n" \o BBlock_fmt(node.bblocks[1]) \o "}", 1)
                    ELSE inner
         IN  IF own # "" THEN own ELSE insts_fmt_err(Tail(nodes))

\* The loop of decompile over the blocks.
RECURSIVE bblocks_fmt(_)
bblocks_fmt(bbs) ==
    IF bbs = << >> THEN "" ELSE BBlock_fmt(bbs[1]) \o bblocks_fmt(Tail(bbs))

\* The exception the loop of decompile ends with, "" when it ends with none.
RECURSIVE bblocks_fmt_err(_)
bblocks_fmt_err(bbs) ==
    IF bbs = << >> THEN ""
    ELSE IF insts_fmt_err(bbs[1].insts) # "" THEN insts_fmt_err(bbs[1].insts)
    ELSE bblocks_fmt_err(Tail(bbs))

(***************************************************************************)
(* The end of _bblock_flow and of decompile.                               *)
(***************************************************************************)
\* The for loop ends with no change: _bblock_flow returns.
_bblock_flow_return ==
    /\ stage = "flow"
    /\ FlowScan(bblocks, 0).how = "return"
    /\ stage' = "fmt"
    /\ UNCHANGED <<code, err, tb, bytecode, insts, pc, i, newstart, starts, ends,
                   instbeforeidx, bblocks, cur, detached, outstr>>

\* decompile formats the blocks and returns outstr.
decompile_return ==
    /\ stage = "fmt"
    /\ bblocks_fmt_err(bblocks) = ""
    /\ outstr' = bblocks_fmt(bblocks)
    /\ stage' = "done"
    /\ UNCHANGED <<code, err, tb, bytecode, insts, pc, i, newstart, starts, ends,
                   instbeforeidx, bblocks, cur, detached>>

\* The fmt of a BBFlowIf raises in the loop of decompile.
decompile_raise ==
    /\ stage = "fmt"
    /\ bblocks_fmt_err(bblocks) # ""
    /\ Raise("fmt", bblocks_fmt_err(bblocks))
    /\ UNCHANGED <<code, bytecode, insts, pc, i, newstart, starts, ends,
                   instbeforeidx, bblocks, cur, detached, outstr>>

(***************************************************************************)
(* The inputs: the buffers getbc may return.  A buffer is not empty.  They *)
(* are the short strings over a few bytes (among them a byte that is no    *)
(* opcode), the programs of a few stack instructions, and the programs     *)
(* made of conditional jumps over one instruction, one-byte statements,    *)
(* nops and backward jumps.                                                *)
(***************************************************************************)
\* done, push1, push4, jump1, and 255: no opcode, and -1 as a signed operand
RawBytes == {0, 1, 2, 9, 255}

StackInsts ==
    { <<0>>,             \* done
      <<1, 0>>,          \* push1 0
      <<3>>,             \* pop
      <<4, 3>>,          \* invokeStk1 3
      <<6>>,             \* loadArrayStk
      <<7>>,             \* loadStk
      <<8>>,             \* storeStk
      <<15>> }           \* nop

Snippets ==
    { <<1, 0, 13, 3>>,            \* push1 0; jumpFalse1 +3 (over a one-byte instruction)
      <<1, 0, 11, 3>>,            \* push1 0; jumpTrue1 +3
      <<1, 0, 13, 4, 1, 1>>,      \* push1 0; jumpFalse1 +4; push1 1
      <<3>>,                      \* pop
      <<15>>,                     \* nop
      <<9, 0>>,                   \* jump1 +0 (to itself)
      <<9, 255>>,                 \* jump1 -1
      <<13, 255>>,                \* jumpFalse1 -1
      <<10, 255, 255, 255, 255>>  \* jump4 -1
    }

SeqsUpTo(S, n) == UNION {[1..m -> S] : m \in 1..n}

RECURSIVE Flatten(_)
Flatten(ss) == IF ss = << >> THEN << >> ELSE Head(ss) \o Flatten(Tail(ss))

Inputs ==
    SeqsUpTo(RawBytes, MaxBytes)
        \cup {Flatten(p) : p \in SeqsUpTo(StackInsts, MaxInsts)}
        \cup {Flatten(p) : p \in SeqsUpTo(Snippets, MaxSnippets)}

\* The buffers of the runs checked for termination: the programs of fewer
\* pieces, among them a conditional, one whose body has a "%", a statement,
\* a backward jump and a nop.
FairSnippets == {<<1, 0, 13, 3>>, <<1, 0, 13, 4, 1, 1>>, <<3>>, <<9, 255>>, <<15>>}

FairInputs == {Flatten(p) : p \in SeqsUpTo(FairSnippets, MaxFairSnippets)}

\* decompile(tcl_code) is called: getbc has returned the buffer.
decompile(inputs) ==
    /\ code \in inputs
    /\ stage = "getinsts"
    /\ err = ""
    /\ tb = ""
    /\ bytecode = code
    /\ insts = << >>
    /\ pc = 0
    /\ i = 0
    /\ newstart = TRUE
    /\ starts = {}
    /\ ends = {}
    /\ instbeforeidx = 0
    /\ bblocks = << >>
    /\ cur = 0
    /\ detached = << >>
    /\ outstr = ""

Init == decompile(Inputs)

FairInit == decompile(FairInputs)

Next ==
    \/ getinsts_loop
    \/ getinsts_return
    \/ _bblock_create_loop
    \/ _bblock_create_search
    \/ _bblock_create_found
    \/ _bblock_create_notfound
    \/ _bblock_create_blocks
    \/ _bblock_create_fixup
    \/ _bblock_reduce
    \/ _bblock_reduce_return
    \/ _bblock_flow
    \/ _bblock_flow_raise
    \/ _bblock_flow_return
    \/ decompile_return
    \/ decompile_raise

Spec == Init /\ [][Next]_vars

\* decompile runs in one thread that nothing stops: a step that can be taken is taken.
FairSpec == FairInit /\ [][Next]_vars /\ WF_vars(Next)

(***************************************************************************)
(* The claims.                                                             *)
(***************************************************************************)
\* The total length the opcode table gives the instruction.
TotalLength(inst) ==
    (CHOOSE e \in {INSTRUCTIONS[o] : o \in 1..Len(INSTRUCTIONS)} :
        e.name = inst.name).num_bytes

\* getinsts has returned its list.
GetinstsReturned == stage # "getinsts" /\ tb # "getinsts"

\* C5: the instructions getinsts returns start at offset 0, each starts where
\* the one before it ends (its offset plus its total length in the opcode
\* table), so the offsets strictly increase, and the last ends at the end of
\* the buffer.
C5_OffsetsContiguous ==
    GetinstsReturned =>
        /\ Len(insts) > 0
        /\ insts[1].loc = 0
        /\ \A k \in 1..(Len(insts) - 1) :
              /\ insts[k + 1].loc = insts[k].loc + TotalLength(insts[k])
              /\ insts[k + 1].loc > insts[k].loc
        /\ insts[Len(insts)].loc + TotalLength(insts[Len(insts)]) = Len(code)

\* getinsts has returned three or more instructions of different lengths.
C5_Witness ==
    /\ GetinstsReturned
    /\ Len(insts) >= 3
    /\ \E k \in 1..Len(insts) : TotalLength(insts[k]) = 5
    /\ \E k \in 1..Len(insts) : TotalLength(insts[k]) = 1

\* The buffer's last instruction, from the 0-based offset pos on, has an
\* opcode of the table whose total length runs past the end of the buffer.
RECURSIVE TruncatedFrom(_, _)
TruncatedFrom(buf, pos) ==
    IF pos >= Len(buf) THEN FALSE
    ELSE IF buf[pos + 1] + 1 > Len(INSTRUCTIONS) THEN FALSE
    ELSE IF pos + INSTRUCTIONS[buf[pos + 1] + 1].num_bytes > Len(buf) THEN TRUE
    ELSE TruncatedFrom(buf, pos + INSTRUCTIONS[buf[pos + 1] + 1].num_bytes)

\* C6: on a buffer whose last instruction lacks operand bytes getinsts never
\* returns a list: it is still decoding or it has raised, and no instruction
\* it has built runs past the end of the buffer.
C6_TruncatedFails ==
    TruncatedFrom(code, 0) =>
        /\ stage = "getinsts" \/ (stage = "error" /\ tb = "getinsts" /\ err # "")
        /\ \A k \in 1..Len(insts) : insts[k].loc + TotalLength(insts[k]) <= Len(code)

\* getinsts has raised on a truncated last instruction, after it decoded one.
C6_Witness ==
    /\ TruncatedFrom(code, 0)
    /\ stage = "error"
    /\ tb = "getinsts"
    /\ Len(insts) >= 1

\* Every jump of the instruction list targets the offset of an instruction.
ValidTargets(is) ==
    \A k \in 1..Len(is) :
        is[k].name \in JUMP_INSTRUCTIONS =>
            \E m \in 1..Len(is) : is[m].loc = is[k].targetloc.loc

\* The instruction lists of the blocks, concatenated in order.
BlocksInsts(bbs) == Flatten([b \in 1..Len(bbs) |-> bbs[b].insts])

\* The blocks are a partition of the instruction list into non-empty blocks
\* in which a jump is the last item and whose starts hold every jump target.
IsPartition(bbs, is) ==
    /\ \A b \in 1..Len(bbs) :
          /\ bbs[b].insts # << >>
          /\ bbs[b].loc = bbs[b].insts[1].loc
          /\ \A j \in 1..Len(bbs[b].insts) :
                bbs[b].insts[j].name \in JUMP_INSTRUCTIONS =>
                    /\ j = Len(bbs[b].insts)
                    /\ \E t \in 1..Len(bbs) :
                          bbs[b].insts[j].targetloc = [bblock |-> bbs[t].insts[1].loc]
    /\ BlocksInsts(bbs) = is

\* C1: _bblock_create raises only on a list with a jump to an offset that is
\* no instruction's; and what it returns is a list of non-empty blocks whose
\* instructions, concatenated, are the list it was given, in which every jump
\* is the last item of its block and every jump target is the start of a block
\* (the target the instruction was decoded with).
C1_Partition ==
    [][ /\ (tb = "" /\ tb' = "_bblock_create") => ~ValidTargets(insts)
        /\ (stage = "fixup" /\ stage' = "reduce") =>
              /\ IsPartition(bblocks', insts')
              /\ \A k \in 1..Len(insts) :
                    insts[k].name \in JUMP_INSTRUCTIONS =>
                        insts'[k].targetloc = [bblock |-> insts[k].targetloc.loc]
      ]_vars

\* _bblock_create has returned three or more blocks, one of them of several
\* instructions, for a list with a backward jump.
C1_Witness ==
    /\ stage = "reduce"
    /\ cur = 0
    /\ Len(bblocks) >= 3
    /\ BlocksInsts(bblocks) = insts
    /\ \E b \in 1..Len(bblocks) : Len(bblocks[b].insts) >= 2
    /\ \E k \in 1..Len(insts) :
          /\ insts[k].name \in JUMP_INSTRUCTIONS
          /\ insts[k].targetloc.bblock < insts[k].loc

\* The class of the node a rule makes of its instruction.
RuleClass(name) ==
    CASE name \in {"push1", "push4"} -> "BCLiteral"
      [] name \in {"invokeStk1", "invokeStk4", "storeStk"} -> "BCProcCall"
      [] name \in {"jump1", "jumpFalse1", "jumpTrue1"} -> "BCJump"
      [] name = "loadArrayStk" -> "BCArrayRef"
      [] name = "loadStk" -> "BCVarRef"
      [] name = "pop" -> "BCIgnoredProcCall"
      [] OTHER -> "none"

\* out is what the rule of inst makes of the consumed items args: nothing for
\* a nop, else one node of the rule's class, made of inst, whose arguments
\* are args in their order (after the literal set for a storeStk).
IsRuleOutput(inst, args, out) ==
    IF inst.name = "nop" THEN out = << >>
    ELSE /\ Len(out) = 1
         /\ out[1].kind = RuleClass(inst.name)
         /\ out[1].inst = inst
         /\ IF inst.name \in {"push1", "push4"}
            THEN /\ args = << >>
                 /\ out[1].value = literals[inst.ops[1][2] + 1]
            ELSE IF inst.name = "storeStk"
            THEN /\ Len(out[1].value) = 3
                 /\ out[1].value[1].kind = "BCLiteral"
                 /\ out[1].value[1].value = "set"
                 /\ SubSeq(out[1].value, 2, 3) = args
            ELSE out[1].value = args

\* The items items of a block became new by one rewrite of the raw
\* instruction at the 0-based index k with n consumed items.
IsRewriteAt(items, new, k, n) ==
    LET inst == items[k + 1]
        after == Len(items) - k - 1
    IN  /\ inst.kind = "Inst"
        /\ inst.name \in INST_REDUCTIONS \cup {"push1", "push4"}
        /\ n = IF inst.name \in {"push1", "push4"} THEN 0 ELSE nargs(inst)
        /\ k >= n
        /\ \A a \in (k - n + 1)..k :
              IF inst.name = "pop" THEN items[a].kind = "BCProcCall"
              ELSE items[a].kind \in BCValue
        /\ Len(new) >= (k - n) + after
        /\ SubSeq(new, 1, k - n) = SubSeq(items, 1, k - n)
        /\ SubSeq(new, Len(new) - after + 1, Len(new)) = SubSeq(items, k + 2, Len(items))
        /\ IsRuleOutput(inst, SubSeq(items, k - n + 1, k),
                        SubSeq(new, k - n + 1, Len(new) - after))

\* C8: every change _bblock_reduce makes to a block is the rewrite of one raw
\* instruction that has a rule, at an index i with at least n items before it,
\* n the rule's arity, those n items all value nodes (a BCProcCall for pop):
\* they and the instruction become the rule's output, with the consumed items
\* in their order as its arguments; the block's other items, and the other
\* blocks, stay as they are.
C8_ReduceStep ==
    [][ (stage = "reduce" /\ bblocks' # bblocks) =>
            /\ Len(bblocks') = Len(bblocks)
            /\ \A b \in 1..Len(bblocks) :
                  /\ bblocks'[b].loc = bblocks[b].loc
                  /\ b # cur + 1 => bblocks'[b] = bblocks[b]
            /\ \E k \in 0..(Len(bblocks[cur + 1].insts) - 1) :
                  \E n \in 0..k :
                      IsRewriteAt(bblocks[cur + 1].insts, bblocks'[cur + 1].insts, k, n)
      ]_vars

\* A pop has wrapped the call a storeStk made of the two items before it,
\* the earlier item first.
C8_Witness ==
    /\ stage = "flow"
    /\ \E b \in 1..Len(bblocks) :
          \E j \in 1..Len(bblocks[b].insts) :
              /\ bblocks[b].insts[j].kind = "BCIgnoredProcCall"
              /\ bblocks[b].insts[j].value[1].inst.name = "storeStk"
              /\ bblocks[b].insts[j].value[1].value[2].inst.loc
                    < bblocks[b].insts[j].value[1].value[3].inst.loc

\* C9: every block has items, and _get_jump never raises in _bblock_flow.
\* (The code breaks it: the rule of nop erases the last item of a block of nops.)
C9_BlocksNonEmpty ==
    /\ \A b \in 1..Len(bblocks) : bblocks[b].insts # << >>
    /\ tb # "_bblock_flow"

\* _bblock_flow has raised on a block that the rule of nop left without items.
C9_Witness ==
    /\ stage = "error"
    /\ tb = "_bblock_flow"
    /\ \E b \in 1..Len(bblocks) : bblocks[b].insts = << >>

\* The block's last item is a jump: a BCJump, or a raw instruction of
\* JUMP_INSTRUCTIONS that no rule has reduced.
EndsInJump(bblock) ==
    /\ bblock.insts # << >>
    /\ \/ bblock.insts[Len(bblock.insts)].kind = "BCJump"
       \/ /\ bblock.insts[Len(bblock.insts)].kind = "Inst"
          /\ bblock.insts[Len(bblock.insts)].name \in JUMP_INSTRUCTIONS

\* The block's terminating jump refers to the block target.
JumpsTo(bblock, target) ==
    /\ EndsInJump(bblock)
    /\ bblock.insts[Len(bblock.insts)].targetloc = [bblock |-> target.loc]

\* A step of _bblock_flow that merges a run.
IsMerge == stage = "flow" /\ bblocks' # bblocks

\* C2: when _bblock_flow merges the run A, B, C, B does not end in a jump, no
\* block's terminating jump targets B, and no block's but A's targets C; a
\* jump is any instruction of JUMP_INSTRUCTIONS, reduced to a BCJump or not.
\* (The code breaks it: _get_jump sees only the jumps reduced to a BCJump.)
C2_MergeGuard ==
    [][ IsMerge =>
            LET k == FlowScan(bblocks, 0).i
            IN  /\ ~EndsInJump(bblocks[k + 2])
                /\ \A b \in 1..Len(bblocks) : ~JumpsTo(bblocks[b], bblocks[k + 2])
                /\ \A b \in 1..Len(bblocks) :
                      b # k + 1 => ~JumpsTo(bblocks[b], bblocks[k + 3])
      ]_vars

\* A run has been merged whose third block ended in a raw jump instruction to
\* the second.
C2_Witness ==
    /\ Len(detached) >= 2
    /\ \E d \in 1..(Len(detached) - 1) :
          LET C == detached[d + 1]
          IN  /\ C.insts # << >>
              /\ C.insts[Len(C.insts)].kind = "Inst"
              /\ C.insts[Len(C.insts)].name \in JUMP_INSTRUCTIONS
              /\ C.insts[Len(C.insts)].targetloc = [bblock |-> detached[d].loc]

\* C10: a BCJump among the items of a top-level block is the block's last
\* item, and the block it refers to is in the top-level sequence.
C10_JumpTargetsPresent ==
    \A b \in 1..Len(bblocks) :
        \A j \in 1..Len(bblocks[b].insts) :
            bblocks[b].insts[j].kind = "BCJump" =>
                /\ j = Len(bblocks[b].insts)
                /\ \E t \in 1..Len(bblocks) :
                      bblocks[b].insts[j].targetloc = [bblock |-> bblocks[t].loc]

\* _bblock_flow has merged a run and returned, and a top-level block ends in
\* a BCJump.
C10_Witness ==
    /\ stage = "done"
    /\ detached # << >>
    /\ \E b \in 1..Len(bblocks) :
          bblocks[b].insts[Len(bblocks[b].insts)].kind = "BCJump"

\* The block's last item when it is a BCJump, else None.
LastJump(bblock) ==
    IF bblock.insts # << >> /\ bblock.insts[Len(bblock.insts)].kind = "BCJump"
    THEN bblock.insts[Len(bblock.insts)]
    ELSE None

\* The run of three blocks at the 0-based index k is the one of C3: the first
\* ends in a jump taken on false to the third, the second ends in no jump and
\* no block jumps to it, and no block but the first jumps to the third.
IsFalseIfRun(bbs, k) ==
    /\ k + 3 <= Len(bbs)
    /\ LastJump(bbs[k + 1]) # None
    /\ LastJump(bbs[k + 1]).on = "False"
    /\ LastJump(bbs[k + 1]).targetloc = [bblock |-> bbs[k + 3].loc]
    /\ LastJump(bbs[k + 2]) = None
    /\ \A b \in 1..Len(bbs) :
          LastJump(bbs[b]) # None =>
              /\ LastJump(bbs[b]).targetloc # [bblock |-> bbs[k + 2].loc]
              /\ b # k + 1 => LastJump(bbs[b]).targetloc # [bblock |-> bbs[k + 3].loc]

\* The merge of the run at the 0-based index k made new of old: the second and
\* the third block are gone, the others but the first are as they were, and
\* the first keeps its items before the jump, has in the jump's place a
\* BBFlowIf of the jump and the second block, and after it the third's items.
IsIfMerge(old, new, k) ==
    LET A == old[k + 1]
        n == Len(A.insts)
    IN  /\ Len(new) = Len(old) - 2
        /\ \A b \in 1..k : new[b] = old[b]
        /\ \A b \in (k + 2)..Len(new) : new[b] = old[b + 2]
        /\ new[k + 1].loc = A.loc
        /\ Len(new[k + 1].insts) = n + Len(old[k + 3].insts)
        /\ SubSeq(new[k + 1].insts, 1, n - 1) = SubSeq(A.insts, 1, n - 1)
        /\ new[k + 1].insts[n].kind = "BBFlowIf"
        /\ new[k + 1].insts[n].condition = A.insts[n]
        /\ new[k + 1].insts[n].bblocks = <<old[k + 2]>>
        /\ SubSeq(new[k + 1].insts, n + 1, Len(new[k + 1].insts)) = old[k + 3].insts

\* C3, as the claim has it: the BBFlowIf is the last item but one of the
\* merged block.  (It is not when the third block has several items.)
C3_IfLastButOne ==
    [][ (IsMerge /\ IsFalseIfRun(bblocks, FlowScan(bblocks, 0).i)) =>
            LET k == FlowScan(bblocks, 0).i
                m == Len(bblocks'[k + 1].insts)
            IN  /\ IsIfMerge(bblocks, bblocks', k)
                /\ m >= 2
                /\ bblocks'[k + 1].insts[m - 1].kind = "BBFlowIf"
      ]_vars

\* C3, amended: _bblock_flow does not return while a run of C3 is in the
\* sequence, and its merge of such a run leaves one block: the first block's
\* items before the jump, a BBFlowIf of the jump and the second block in the
\* jump's place, and the third block's items after it.
C3_IfRecovery ==
    [][ /\ (stage = "flow" /\ \E k \in 0..Len(bblocks) : IsFalseIfRun(bblocks, k))
              => stage' # "fmt"
        /\ (IsMerge /\ IsFalseIfRun(bblocks, FlowScan(bblocks, 0).i))
              => IsIfMerge(bblocks, bblocks', FlowScan(bblocks, 0).i)
      ]_vars

\* A run of C3 whose third block has two items has been merged.
C3_Witness ==
    /\ stage = "done"
    /\ \E b \in 1..Len(bblocks) :
          \E j \in 1..Len(bblocks[b].insts) :
              /\ bblocks[b].insts[j].kind = "BBFlowIf"
              /\ bblocks[b].insts[j].condition.on = "False"
              /\ Len(bblocks[b].insts) = j + 2

\* The text C4 gives an if: the condition with "!" before it when the jump is
\* taken on false and as it is when taken on true, and the body's text in the
\* second pair of braces.
ClaimedIfText(node) ==
    "if {" \o (IF node.condition.inst.name = "jumpFalse1" THEN "!" ELSE "")
        \o fmt(node.condition.value[1])
        \o "} {\n" \o insts_fmt(node.bblocks[1].insts) \o "\n}"

\* The text of a block whose ifs are written as C4 has them.
RECURSIVE ClaimedText(_)
ClaimedText(nodes) ==
    IF nodes = << >> THEN "\n"
    ELSE (IF nodes[1].kind = "BBFlowIf" THEN ClaimedIfText(nodes[1]) ELSE fmt(nodes[1]))
            \o (IF Len(nodes) = 1 THEN "\n" ELSE "\n" \o ClaimedText(Tail(nodes)))

\* The one block left is an if recovered from a jumpFalse1 or a jumpTrue1
\* whose body has no if in it, then the items that were at the jump's target.
IsSimpleIf(bbs) ==
    /\ Len(bbs) = 1
    /\ \E j \in 1..Len(bbs[1].insts) :
          /\ bbs[1].insts[j].kind = "BBFlowIf"
          /\ \A m \in 1..Len(bbs[1].insts) : m # j => bbs[1].insts[m].kind # "BBFlowIf"
          /\ \A m \in 1..Len(bbs[1].insts[j].bblocks[1].insts) :
                bbs[1].insts[j].bblocks[1].insts[m].kind # "BBFlowIf"

\* C4: when flow recovery leaves one block with an if in it, decompile
\* returns the text "if {<condition>} {<body>}" followed by the items that
\* were at the jump's target, where the condition is the value the jump took
\* with "!" before it for a jumpFalse1 and as it is for a jumpTrue1.
C4_IfText ==
    [][ (stage = "fmt" /\ IsSimpleIf(bblocks)) =>
            /\ stage' = "done"
            /\ outstr' = ClaimedText(bblocks[1].insts)
      ]_vars

\* decompile has raised in the fmt of an if whose body is a literal with a "%".
C4_BodyPercentRaises ==
    /\ stage = "error"
    /\ tb = "fmt"
    /\ err = "TypeError"
    /\ IsSimpleIf(bblocks)

\* decompile has returned an if of a jumpFalse1 with its condition as it is.
C4_FalseNotNegated ==
    /\ stage = "done"
    /\ IsSimpleIf(bblocks)
    /\ \E j \in 1..Len(bblocks[1].insts) :
          /\ bblocks[1].insts[j].kind = "BBFlowIf"
          /\ bblocks[1].insts[j].condition.inst.name = "jumpFalse1"
          /\ SubSeq(outstr, 1, 6) = "if {x}"

\* The number of raw instructions among the items.
RECURSIVE RawCount(_)
RawCount(items) ==
    IF items = << >> THEN 0
    ELSE (IF items[1].kind = "Inst" THEN 1 ELSE 0) + RawCount(Tail(items))

\* decompile has returned or raised.
Terminated == stage \in {"done", "error"}

\* C7: every iteration of getinsts takes at least one byte off the bytecode,
\* every iteration of the search of _bblock_create advances its index within
\* the list, every rewrite of _bblock_reduce leaves the block with fewer raw
\* instructions, every merge of _bblock_flow leaves fewer blocks, and every
\* decompilation ends in a result or an error.
C7_Terminates ==
    /\ [][ /\ (stage = "getinsts" /\ stage' = "getinsts")
                 => Len(bytecode') < Len(bytecode)
           /\ (stage = "search" /\ stage' = "search")
                 => /\ instbeforeidx' > instbeforeidx
                    /\ instbeforeidx' < Len(insts)
           /\ (stage = "reduce" /\ stage' = "reduce" /\ cur' = cur)
                 => RawCount(bblocks'[cur + 1].insts) < RawCount(bblocks[cur + 1].insts)
           /\ (stage = "flow" /\ stage' = "flow")
                 => Len(bblocks') < Len(bblocks)
         ]_vars
    /\ <>Terminated

\* A decompilation whose search took a step and whose flow recovery merged
\* blocks has returned.
C7_Witness ==
    /\ stage = "done"
    /\ instbeforeidx > 0
    /\ detached # << >>

=============================================================================
